---------------------------- MODULE Spec2Model ----------------------------
(***************************************************************************)
(* Model of count_of_atoms (src/Random Questions/atomcount.py): the        *)
(* recursive-descent parser `parse(s, i)` of chemical formulas and the     *)
(* top-level code that consumes its result.                                *)
(*                                                                         *)
(* The call stack of parse is the sequence `stack`; each frame holds the   *)
(* locals `i` (0-based cursor, as in the code) and `counts`.  One action   *)
(* is one iteration of the `while i < n` loop of the innermost active      *)
(* invocation, or one `return` together with what the caller does with the *)
(* returned value up to the end of its own iteration.                      *)
(***************************************************************************)
EXTENDS Integers, Sequences, FiniteSets

VARIABLES
    s,        \* the formula string, a sequence of one-character strings
    stack,    \* active invocations of parse, outermost first
    ret,      \* the value most recently returned by an invocation of parse
    result,   \* "running", "ok", or the Python exception that ended the run
    used      \* used[p]: how often character p (1-based) was consumed by a production

vars == <<s, stack, ret, result, used>>

(***************************************************************************)
(* Bounds of the model.                                                    *)
(***************************************************************************)
MaxLen == 4          \* arbitrary strings over Alphabet up to this length
MaxFormulaLen == 7   \* well-formed formulas over the grammar up to this length
DepthLimit == 2      \* the nesting bound claim C10 asks the parser to enforce

(***************************************************************************)
(* Character classes: str.isalpha, str.islower, str.isdigit restricted to  *)
(* the characters the model draws inputs from.                             *)
(***************************************************************************)
Upper == {"A", "B"}
Lower == {"a"}
Digit == {"0", "2", "3"}
Alphabet == {"A", "B", "a", "0", "2", "(", ")", "$"}

isalpha(c) == c \in Upper \cup Lower
islower(c) == c \in Lower
isdigit(c) == c \in Digit

\* s[i] with the code's 0-based index
Char(str, i) == str[i + 1]

\* s[a:b] with the code's 0-based half-open slice
Slice(str, a, b) == SubSeq(str, a + 1, b)

DigitVal(c) ==
    CASE c = "0" -> 0
      [] c = "2" -> 2
      [] c = "3" -> 3

\* int(digits) for a non-empty string of decimal digits
RECURSIVE int(_)
int(digits) ==
    IF Len(digits) = 0 THEN 0
    ELSE 10 * int(SubSeq(digits, 1, Len(digits) - 1)) + DigitVal(digits[Len(digits)])

\* `while i + 1 < n and pred(s[i + 1]): i += 1` : the final value of i
RECURSIVE ScanLower(_, _)
ScanLower(str, i) ==
    IF i + 1 < Len(str) /\ islower(Char(str, i + 1)) THEN ScanLower(str, i + 1) ELSE i

RECURSIVE ScanDigits(_, _)
ScanDigits(str, i) ==
    IF i + 1 < Len(str) /\ isdigit(Char(str, i + 1)) THEN ScanDigits(str, i + 1) ELSE i

\* `int(s[num_start:i + 1]) if num_start <= i else 1`
NumberOrDefault(str, num_start, i) ==
    IF num_start <= i THEN int(Slice(str, num_start, i + 1)) ELSE 1

\* defaultdict(int)
EmptyCounts == [k \in {} |-> 0]

\* counts[atom] (a defaultdict read)
Get(counts, atom) == IF atom \in DOMAIN counts THEN counts[atom] ELSE 0

\* counts[atom] += count
AddCount(counts, atom, count) ==
    [k \in DOMAIN counts \cup {atom} |->
        IF k = atom THEN Get(counts, atom) + count ELSE counts[k]]

\* the term `count * multiplier` added for one atom of a group
ScaledUnmultiplied(count, multiplier) == count

Scaled(count, multiplier) == count * multiplier

\* for atom, count in inner_counts.items(): counts[atom] += count * multiplier
Merge(counts, inner_counts, multiplier) ==
    [k \in DOMAIN counts \cup DOMAIN inner_counts |->
        IF k \in DOMAIN inner_counts
        THEN Get(counts, k) + Scaled(inner_counts[k], multiplier)
        ELSE counts[k]]

\* `i = j` after a group: where the caller's cursor is put before its `i += 1`
ResumeAtOpen(i, j) == i

ResumeAt(i, j) == j

\* used, with every position of the 0-based range a..b counted once more
Consume(u, a, b) == [p \in DOMAIN u |-> IF a + 1 <= p /\ p <= b + 1 THEN u[p] + 1 ELSE u[p]]

(***************************************************************************)
(* Inputs.  Formula(n) is the set of strings of length n of the grammar    *)
(*   formula := term*     term := element count? | '(' formula ')' count?  *)
(*   element := UPPER lower*    count := DIGIT+  (positive)                *)
(* over one uppercase letter, one lowercase letter and the digits 2 and 3. *)
(***************************************************************************)
FUpper == {"A"}
FLower == {"a"}
FDigit == {"2", "3"}

StringsOver(chars, len) == [1..len -> chars]

RECURSIVE Term(_), Formula(_)
Term(len) ==
    UNION {
        {<<u>> \o lo \o d : u \in FUpper, lo \in StringsOver(FLower, k),
                            d \in StringsOver(FDigit, len - 1 - k)} : k \in 0..(len - 1)}
    \cup
    UNION {
        {<<"(">> \o f \o <<")">> \o d : f \in Formula(k),
                                        d \in StringsOver(FDigit, len - 2 - k)} : k \in 0..(len - 2)}

Formula(len) ==
    IF len = 0 THEN {<<>>}
    ELSE UNION {{t \o f : t \in Term(k), f \in Formula(len - k)} : k \in 1..len}

WellFormed == UNION {Formula(len) : len \in 0..MaxFormulaLen}

Inputs == UNION {StringsOver(Alphabet, len) : len \in 0..MaxLen} \cup WellFormed

(***************************************************************************)
(* The program.                                                            *)
(***************************************************************************)
NoReturn == [kind |-> "none"]

\* result = parse(formula, 0): one frame with i = 0 and an empty defaultdict
Init ==
    /\ s \in Inputs
    /\ stack = <<[i |-> 0, counts |-> EmptyCounts]>>
    /\ ret = NoReturn
    /\ result = "running"
    /\ used = [p \in 1..Len(s) |-> 0]

depth == Len(stack)
top == stack[depth]
n == Len(s)

Running == result = "running" /\ depth > 0
InLoop == Running /\ top.i < n

\* lines 9-22 and 43: an atom name, its count, counts[atom] += count, i += 1
AtomStep ==
    /\ InLoop
    /\ isalpha(Char(s, top.i))
    /\ LET start == top.i
           e == ScanLower(s, start)
           atom == Slice(s, start, e + 1)
           num_start == e + 1
           d == ScanDigits(s, e)
           count == NumberOrDefault(s, num_start, d)
       IN /\ stack' = [stack EXCEPT ![depth] =
                          [i |-> d + 1, counts |-> AddCount(top.counts, atom, count)]]
          /\ used' = Consume(used, start, d)
    /\ UNCHANGED <<s, ret, result>>

\* lines 24-26: '(' calls parse(s, i + 1); the caller waits inside its iteration
OpenGroup ==
    /\ InLoop
    /\ Char(s, top.i) = "("
    /\ stack' = Append(stack, [i |-> top.i + 1, counts |-> EmptyCounts])
    /\ used' = Consume(used, top.i, top.i)
    /\ UNCHANGED <<s, ret, result>>

\* lines 39-41 in a nested call, then lines 26-37 and 43 in its caller:
\* return counts, i; the caller reads the multiplier, merges, resumes after it
CloseGroup ==
    /\ InLoop
    /\ depth > 1
    /\ Char(s, top.i) = ")"
    /\ LET caller == stack[depth - 1]
           inner_counts == top.counts
           j == top.i
           num_start == j + 1
           j2 == ScanDigits(s, j)
           multiplier == NumberOrDefault(s, num_start, j2)
       IN /\ stack' = [SubSeq(stack, 1, depth - 1) EXCEPT ![depth - 1] =
                          [i |-> ResumeAt(caller.i, j2) + 1,
                           counts |-> Merge(caller.counts, inner_counts, multiplier)]]
          /\ used' = Consume(used, j, j2)
    /\ ret' = [kind |-> "pair", counts |-> top.counts, pos |-> top.i]
    /\ UNCHANGED <<s, result>>

\* lines 39-41 in the outermost call, then line 50: parse returns the tuple
\* (counts, i) and result.items() raises AttributeError
CloseAtTop ==
    /\ InLoop
    /\ depth = 1
    /\ Char(s, top.i) = ")"
    /\ ret' = [kind |-> "pair", counts |-> top.counts, pos |-> top.i]
    /\ result' = "AttributeError"
    /\ stack' = <<>>
    /\ UNCHANGED <<s, used>>

\* lines 9, 24, 39 all false, then line 43: the character is passed over
SkipChar ==
    /\ InLoop
    /\ ~isalpha(Char(s, top.i))
    /\ Char(s, top.i) \notin {"(", ")"}
    /\ stack' = [stack EXCEPT ![depth].i = top.i + 1]
    /\ UNCHANGED <<s, ret, result, used>>

\* line 45 in the outermost call, then lines 50-51: the dict is printed sorted
Finish ==
    /\ Running
    /\ top.i >= n
    /\ depth = 1
    /\ ret' = [kind |-> "counts", counts |-> top.counts]
    /\ result' = "ok"
    /\ stack' = <<>>
    /\ UNCHANGED <<s, used>>

\* line 45 in a nested call, then line 26 (and 29) in its caller: the dict is
\* unpacked into `inner_counts, j`.  With other than two keys the unpacking
\* raises ValueError; with two keys j is a key (a str) and j + 1 raises TypeError
EndInGroup ==
    /\ Running
    /\ top.i >= n
    /\ depth > 1
    /\ ret' = [kind |-> "counts", counts |-> top.counts]
    /\ result' = IF Cardinality(DOMAIN top.counts) = 2 THEN "TypeError" ELSE "ValueError"
    /\ stack' = <<>>
    /\ UNCHANGED <<s, used>>

Next ==
    \/ AtomStep
    \/ OpenGroup
    \/ CloseGroup
    \/ CloseAtTop
    \/ SkipChar
    \/ Finish
    \/ EndInGroup

Spec == Init /\ [][Next]_vars

\* the interpreter runs the function to its end: some step is always taken
FairSpec == Spec /\ WF_vars(Next)


(***************************************************************************)
(* Full expansion of a well-formed formula, computed position by position  *)
(* and independently of the parser: every element occurrence contributes   *)
(* its count times the multipliers of all groups that enclose it.          *)
(***************************************************************************)
Positions(str) == 0..(Len(str) - 1)

\* last index q >= p such that every character of p+1..q is in class
RunEnd(str, p, class) ==
    CHOOSE q \in p..(Len(str) - 1) :
        /\ \A r \in (p + 1)..q : Char(str, r) \in class
        /\ (q = Len(str) - 1 \/ Char(str, q + 1) \notin class)

RECURSIVE Pow10(_)
Pow10(k) == IF k = 0 THEN 1 ELSE 10 * Pow10(k - 1)

\* value of the decimal digits at positions a..b, most significant first
RECURSIVE DecimalValue(_, _, _)
DecimalValue(str, a, b) ==
    IF a > b THEN 0
    ELSE DigitVal(Char(str, a)) * Pow10(b - a) + DecimalValue(str, a + 1, b)

\* the count written directly after position q, 1 when there is none
CountAfter(str, q) ==
    LET e == RunEnd(str, q, Digit)
    IN IF e > q THEN DecimalValue(str, q + 1, e) ELSE 1

Occurrences(str, a, b, c) == Cardinality({r \in a..b : Char(str, r) = c})

\* the ')' closing the '(' at q: the first place where the parentheses balance
MatchingClose(str, q) ==
    CHOOSE r \in (q + 1)..(Len(str) - 1) :
        /\ Occurrences(str, q, r, "(") = Occurrences(str, q, r, ")")
        /\ \A r2 \in q..(r - 1) : Occurrences(str, q, r2, "(") > Occurrences(str, q, r2, ")")

Enclosing(str, p) ==
    {q \in Positions(str) : Char(str, q) = "(" /\ q < p /\ MatchingClose(str, q) > p}

RECURSIVE MultiplierProduct(_, _)
MultiplierProduct(str, groups) ==
    IF groups = {} THEN 1
    ELSE LET q == CHOOSE g \in groups : TRUE
         IN CountAfter(str, MatchingClose(str, q)) * MultiplierProduct(str, groups \ {q})

ElementStarts(str) == {p \in Positions(str) : Char(str, p) \in Upper}

SymbolAt(str, p) == Slice(str, p, RunEnd(str, p, Lower) + 1)

Contribution(str, p) ==
    CountAfter(str, RunEnd(str, p, Lower)) * MultiplierProduct(str, Enclosing(str, p))

RECURSIVE SumContributions(_, _)
SumContributions(str, starts) ==
    IF starts = {} THEN 0
    ELSE LET p == CHOOSE x \in starts : TRUE
         IN Contribution(str, p) + SumContributions(str, starts \ {p})

Expansion(str) ==
    [sym \in {SymbolAt(str, p) : p \in ElementStarts(str)} |->
        SumContributions(str, {p \in ElementStarts(str) : SymbolAt(str, p) = sym})]

(***************************************************************************)
(* Predicates on the input used by the claims.                             *)
(***************************************************************************)
\* some '(' of str has no matching ')' after it
HasUnmatchedOpen(str) ==
    \E q \in Positions(str) :
        /\ Char(str, q) = "("
        /\ \A r \in q..(Len(str) - 1) : Occurrences(str, q, r, "(") > Occurrences(str, q, r, ")")

\* some digit run written directly after a letter or a ')' has the value 0
HasZeroCount(str) ==
    \E p \in 1..(Len(str) - 1) :
        /\ isdigit(Char(str, p))
        /\ isalpha(Char(str, p - 1)) \/ Char(str, p - 1) = ")"
        /\ \A q \in p..RunEnd(str, p, Digit) : Char(str, q) = "0"

\* str is a formula of the grammar with positive counts: only letters, digits
\* and parentheses; parentheses balanced; every lowercase letter continues an
\* element symbol; every digit continues a count that follows an element
\* symbol or a ')'; no count has the value 0
IsWellFormed(str) ==
    /\ \A p \in Positions(str) :
          /\ Char(str, p) \in Upper \cup Lower \cup Digit \cup {"(", ")"}
          /\ Occurrences(str, 0, p, "(") >= Occurrences(str, 0, p, ")")
          /\ Char(str, p) \in Lower => (p >= 1 /\ isalpha(Char(str, p - 1)))
          /\ Char(str, p) \in Digit =>
                (p >= 1 /\ Char(str, p - 1) \in Upper \cup Lower \cup Digit \cup {")"})
    /\ Occurrences(str, 0, Len(str) - 1, "(") = Occurrences(str, 0, Len(str) - 1, ")")
    /\ ~HasZeroCount(str)

\* '(' opened and not yet closed among the first i characters
OpenUnclosed(str, i) == Occurrences(str, 0, i - 1, "(") - Occurrences(str, 0, i - 1, ")")

\* the cursor of the innermost invocation is at a character that starts no term
AtInvalidCharacter ==
    /\ InLoop
    /\ ~isalpha(Char(s, top.i))
    /\ Char(s, top.i) \notin {"(", ")"}

Returned == ret.kind # "none"

(***************************************************************************)
(* Claims.                                                                 *)
(***************************************************************************)

\* C1: for every well-formed formula, parse ends successfully and the counts
\* it returns equal the full expansion of the formula: each element maps to the
\* sum over its occurrences of count times the multipliers of all enclosing groups.
C1_ParseEqualsExpansion ==
    (IsWellFormed(s) /\ result # "running") =>
        (result = "ok" /\ ret.counts = Expansion(s))

\* a doubly nested group with a multiplier on each level has been parsed
C1_Witness ==
    /\ result = "ok"
    /\ s = <<"(", "(", "A", ")", "2", ")", "3">>
    /\ ret.counts = [k \in {<<"A">>} |-> 6]

\* C2: whenever the cursor is at a character that cannot start a term (a digit
\* not consumed as a count or multiplier, or a character outside [A-Za-z()0-9]),
\* the next step ends parsing with an InvalidCharacter error (the run has no
\* error offset to compare; the error kind alone decides the claim).
C2_InvalidCharacterHalts ==
    [][AtInvalidCharacter => result' = "InvalidCharacter"]_vars

\* C3: every input with a '(' that has no matching ')', once parsing has run
\* to the end of the input, ends in the error UnmatchedOpenGroup, whatever the
\* group body holds.
C3_UnmatchedOpenGroup ==
    (result # "running" /\ HasUnmatchedOpen(s) /\ ret.kind = "counts") =>
        result = "UnmatchedOpenGroup"

\* C4: when a ')' is reached at the outermost level, the next step ends
\* parsing with the error UnmatchedCloseGroup.
C4_UnmatchedCloseGroup ==
    [][(InLoop /\ depth = 1 /\ Char(s, top.i) = ")") =>
          result' = "UnmatchedCloseGroup"]_vars

\* C5: every quantity of the counts map of a successful parse is >= 1, also
\* for inputs whose counts or multipliers are 0 or have leading zeros.
C5_QuantitiesPositive ==
    result = "ok" => \A k \in DOMAIN ret.counts : ret.counts[k] >= 1

\* C6: every key of a returned counts map is one uppercase letter followed by
\* lowercase letters only.
C6_KeysAreElementSymbols ==
    Returned =>
        \A k \in DOMAIN ret.counts :
            /\ Len(k) >= 1
            /\ k[1] \in Upper
            /\ \A p \in 2..Len(k) : k[p] \in Lower

\* C7: when parse succeeds, every character of the input was consumed by
\* exactly one grammar production.
C7_EveryCharacterConsumedOnce ==
    result = "ok" => \A p \in 1..Len(s) : used[p] = 1

\* one step of the parser: no cursor of an invocation that stays active moves
\* back, an iteration that stays in its invocation moves its cursor forward, a
\* nested call starts after its '(', and a caller resumes after the ')' at
\* which its nested call stopped.
CursorForward ==
    /\ \A d \in 1..Len(stack') : d <= Len(stack) => stack'[d].i >= stack[d].i
    /\ (Len(stack') = Len(stack) /\ Len(stack) > 0) =>
           stack'[Len(stack')].i > stack[Len(stack)].i
    /\ Len(stack') = Len(stack) + 1 =>
           stack'[Len(stack')].i > stack[Len(stack)].i
    /\ (Len(stack') = Len(stack) - 1 /\ Len(stack') > 0) =>
           /\ Char(s, stack[Len(stack)].i) = ")"
           /\ stack'[Len(stack')].i > stack[Len(stack)].i

\* C8: for every input, malformed ones included, parse terminates; every
\* step moves the cursor strictly forward and a caller resumes strictly after
\* the ')' at which its nested call stopped.
C8_TerminatesCursorForward ==
    /\ [][CursorForward]_vars
    /\ <>(result # "running")

\* a malformed input has ended after a group was left through its ')'
C8_Witness ==
    /\ result \notin {"running", "ok"}
    /\ \E p \in 1..Len(s) : s[p] = ")" /\ used[p] = 1
    /\ \E p \in 1..Len(s) : s[p] = "$"

\* C9: every invocation of parse returns the pair (counts, cursor position).
C9_UniformReturnShape ==
    Returned => ret.kind = "pair"

\* C10: the number of active invocations is one plus the number of '(' opened
\* and not yet closed in the consumed prefix, and it never exceeds the
\* configured nesting bound (an error is signalled instead of recursing).
C10_DepthTrackedAndBounded ==
    Running =>
        /\ depth = 1 + OpenUnclosed(s, top.i)
        /\ depth <= 1 + DepthLimit

=============================================================================
